---------------------------- MODULE Spec2Model ----------------------------
(***************************************************************************)
(* A model of the Bazel remote cache worker (src/src/index.js, lines       *)
(* 154-393): the token cache, the authenticator, the PUT and GET handlers, *)
(* the router and the scheduled sweeper, over an R2 bucket and a D1 table. *)
(*                                                                         *)
(* Every await on a store call is one action: the call takes effect at the *)
(* store and the handler runs on to its next store call.  Store calls that *)
(* the code does not await (ctx.waitUntil(...) in handleGet and            *)
(* env.BUCKET.delete(keys) in scheduled) are pending tasks that settle in  *)
(* actions of their own.                                                   *)
(*                                                                         *)
(* Strings the code slices, concatenates or orders are sequences of        *)
(* one-character strings; strings it only compares for equality are TLA+   *)
(* strings.                                                                *)
(***************************************************************************)
EXTENDS Integers, Sequences, FiniteSets, TLC

VARIABLES
    clock,       \* Date.now(), in milliseconds
    bucket,      \* env.BUCKET: object name -> contents, for the objects present
    db,          \* env.__D1_BETA__DB, table CacheEntries: a set of rows
    tokens,      \* tokenCache.tokens: token key -> [expiration, value]
    req,         \* the requests in flight, one per slot: handler position and locals
    bg,          \* promises handed to ctx.waitUntil and not settled yet
    sweep,       \* the scheduled() invocation: position, marker, staleTime, keys
    pendingDel,  \* env.BUCKET.delete(keys) calls issued and not settled yet
    used         \* how many requests, sweeps and clock steps the run has taken

vars == <<clock, bucket, db, tokens, req, bg, sweep, pendingDel, used>>

----------------------------------------------------------------------------
(* Bounds of the model.                                                    *)

\* Request slots: how many requests may be in flight at once.
MaxReqs == 2

\* How many requests arrive in a run.
MaxRequests == 2

\* How many times the cron trigger fires in a run.
MaxSweeps == 2

\* How many one-second steps the clock takes in a run (the jump of two
\* weeks is not counted).
MaxTicks == 1

----------------------------------------------------------------------------
(* Program constants.                                                      *)

TOKEN_ID_HEADER == "Bazel-Cache-Token-Id"
TOKEN_VALUE_HEADER == "Bazel-Cache-Token-Value"

POSITIVE_TTL == 10 * 60 * 1000
NEGATIVE_TTL == 5 * 1000

\* Two weeks in seconds.
STALENESS_THRESHOLD == 86400 * 14

\* How many stale objects to delete at a time.  100 in the source; scaled
\* down so that a sweep over a handful of keys takes several batches.
STALE_OBJECT_BATCH_SIZE == 2

----------------------------------------------------------------------------
(* Strings.                                                                *)

\* The characters in use, in code-unit order ("/" sorts before the letters).
Alphabet == <<"/", "a", "b", "c", "e", "k", "n", "o", "s", "t", "x">>

CharRank(c) == CHOOSE i \in 1..Len(Alphabet) : Alphabet[i] = c

\* s < t for strings: code-unit lexicographic order, the order of SQLite's
\* BINARY collation and of the comparison key > ?1.
RECURSIVE StrLess(_, _)
StrLess(s, t) ==
    IF t = <<>> THEN FALSE
    ELSE IF s = <<>> THEN TRUE
    ELSE IF Head(s) = Head(t) THEN StrLess(Tail(s), Tail(t))
    ELSE CharRank(Head(s)) < CharRank(Head(t))

StartsWith(s, p) == Len(s) >= Len(p) /\ SubSeq(s, 1, Len(p)) = p

Range(s) == {s[i] : i \in 1..Len(s)}

\* The sequences of n distinct elements of S.
RECURSIVE Arrangements(_, _)
Arrangements(S, n) ==
    IF n = 0 THEN {<<>>}
    ELSE UNION {{<<x>> \o rest : rest \in Arrangements(S \ {x}, n - 1)} : x \in S}

Min(a, b) == IF a <= b THEN a ELSE b

\* Object names and the paths that name them.
Name_ac_a == <<"a", "c", "/", "a">>
Name_ac_b == <<"a", "c", "/", "b">>
Name_cas_c == <<"c", "a", "s", "/", "c">>

Path(name) == <<"/">> \o name

Path_other == <<"/", "x", "/", "a">>
Path_root == <<"/">>

AcPrefix == <<"a", "c", "/">>
CasPrefix == <<"c", "a", "s", "/">>
TokensPrefix == <<"t", "o", "k", "e", "n", "s", "/">>

\* A cache object: a name under ac/ or cas/.
IsCacheName(n) == StartsWith(n, AcPrefix) \/ StartsWith(n, CasPrefix)

\* The part of the bucket under ac/ and cas/.
CacheObjects(b) == [n \in {m \in DOMAIN b : IsCacheName(m)} |-> b[n]]


----------------------------------------------------------------------------
(* JavaScript values of the token cache's expiry arithmetic.               *)

\* new Date(): a Date object holding the clock's milliseconds.
JsDate(ms) == [type |-> "date", ms |-> ms]

JsNumber(n) == [type |-> "number", n |-> n]

\* x + n for a Date x and a number n.  The + operator converts a Date with
\* the default hint, which gives its string form, so the result is that
\* string followed by the digits of n: a string, not a time.
JsAdd(x, n) ==
    IF x.type = "date" THEN [type |-> "string", date |-> x.ms, digits |-> n]
    ELSE JsNumber(x.n + n)

\* ToNumber, as the < operator applies it to each operand: a Date gives its
\* milliseconds; a date string followed by digits is no numeric literal and
\* gives NaN.
JsToNumber(x) ==
    IF x.type = "date" THEN [nan |-> FALSE, n |-> x.ms]
    ELSE IF x.type = "number" THEN [nan |-> FALSE, n |-> x.n]
    ELSE [nan |-> TRUE, n |-> 0]

\* x < y for operands that are not both strings: false when either is NaN.
JsLess(x, y) ==
    LET nx == JsToNumber(x)
        ny == JsToNumber(y)
    IN  IF nx.nan \/ ny.nan THEN FALSE ELSE nx.n < ny.n

\* A value that is a string or null.
NULL == [null |-> TRUE, text |-> ""]

Text(s) == [null |-> FALSE, text |-> s]

\* value ? a : b for a string-or-null value: null and "" are falsy.
JsTruthy(v) == ~v.null /\ v.text # ""

----------------------------------------------------------------------------
(* TokenCache.                                                             *)

\* Mutant of CacheHit: an entry is used whenever there is one, whatever its
\* expiration.
CacheHitAnyEntry(cache, tokenId, now) == tokenId \in DOMAIN cache

\* Mutant of CacheHit: an entry, found or not found alike, is used for
\* POSITIVE_TTL from the time it was stored.
CacheHitForPositiveTtl(cache, tokenId, now) ==
    /\ tokenId \in DOMAIN cache
    /\ now.ms < cache[tokenId].expiration.date + POSITIVE_TTL

\* The test of retrieve's first branch: the cached value is returned when
\* this holds.
CacheHit(cache, tokenId, now) ==
    /\ tokenId \in DOMAIN cache
    /\ JsLess(cache[tokenId].expiration, now)

\* The entry retrieve stores after fetchFn() gave value; now is the Date
\* taken at the start of the call.
CacheEntry(now, value) ==
    LET ttl == IF JsTruthy(value) THEN POSITIVE_TTL ELSE NEGATIVE_TTL
    IN  [expiration |-> JsAdd(now, ttl), value |-> value]

\* Mutant of CacheStore: an entry that is there is refreshed in place, its
\* value replaced and its expiration left as it was.
CacheStoreInPlace(cache, tokenId, entry) ==
    [k \in DOMAIN cache \cup {tokenId} |->
        IF k # tokenId THEN cache[k]
        ELSE IF tokenId \in DOMAIN cache
             THEN [cache[k] EXCEPT !.value = entry.value]
             ELSE entry]

\* this.tokens[tokenId] = {expiration, value}: the entry of tokenId is
\* replaced by a new object.
CacheStore(cache, tokenId, entry) ==
    [k \in DOMAIN cache \cup {tokenId} |->
        IF k = tokenId THEN entry ELSE cache[k]]

\* bucket.get(key), then obj.text(): the contents, or null when absent.
fetchFromR2(key, b) == IF key \in DOMAIN b THEN Text(b[key]) ELSE NULL

----------------------------------------------------------------------------
(* The stores' operations.                                                 *)

\* Mutant of BucketPut: an object that is already there is not replaced.
BucketPutKeepsOld(b, key, body) ==
    [n \in DOMAIN b \cup {key} |-> IF n \in DOMAIN b THEN b[n] ELSE body]

\* bucket.put(key, body)
BucketPut(b, key, body) ==
    [n \in DOMAIN b \cup {key} |-> IF n = key THEN body ELSE b[n]]

\* bucket.delete(keys): absent keys are ignored.
BucketDelete(b, keys) == [n \in DOMAIN b \ keys |-> b[n]]

Row(key, lastUsed) == [key |-> key, last_used |-> lastUsed]

RowsOf(d, key) == {row \in d : row.key = key}

\* Mutant of Upsert: ON CONFLICT(key) DO NOTHING, the old row is kept.
UpsertKeepsOldRow(d, key, lastUsed) ==
    IF RowsOf(d, key) = {} THEN d \cup {Row(key, lastUsed)} ELSE d

\* INSERT INTO CacheEntries (key, last_used) VALUES (?1, ?2)
\*   ON CONFLICT(key) DO UPDATE SET last_used=excluded.last_used
Upsert(d, key, lastUsed) ==
    IF RowsOf(d, key) = {} THEN d \cup {Row(key, lastUsed)}
    ELSE {IF row.key = key THEN Row(key, lastUsed) ELSE row : row \in d}

\* Mutant of Update: the statement is an upsert, a key with no row gets one.
UpdateOrInsert(d, lastUsed, key) ==
    IF RowsOf(d, key) = {} THEN d \cup {Row(key, lastUsed)}
    ELSE {IF row.key = key THEN Row(key, lastUsed) ELSE row : row \in d}

\* Mutant of Update: the statement matches no row.
UpdateNoRow(d, lastUsed, key) == d

\* UPDATE CacheEntries SET last_used=?1 WHERE key=?2
Update(d, lastUsed, key) ==
    {IF row.key = key THEN Row(key, lastUsed) ELSE row : row \in d}

\* Mutant of StaleKeys: the query has no condition on last_used.
StaleKeysAnyAge(d, marker, staleTime) ==
    {row.key : row \in {x \in d : StrLess(marker, x.key)}}

\* The keys SELECT key FROM CacheEntries WHERE key > ?1 AND last_used <= ?2
\* chooses among.
StaleKeys(d, marker, staleTime) ==
    {row.key : row \in {x \in d : StrLess(marker, x.key) /\ x.last_used <= staleTime}}

\* The results the query may give with LIMIT ?3.  The statement has no
\* ORDER BY, so which rows fall within the limit and their order are the
\* database's choice.
QueryResults(d, marker, staleTime, limit) ==
    LET S == StaleKeys(d, marker, staleTime)
    IN  Arrangements(S, Min(limit, Cardinality(S)))

\* DELETE FROM CacheEntries WHERE key IN (?,...)
deleteKeysFromDB(d, keys) == {row \in d : row.key \notin keys}

\* Math.floor(Date.now() / 1000)
EpochSeconds(ms) == ms \div 1000

\* Math.floor(Date.now() / 1000 - STALENESS_THRESHOLD)
StaleTime(ms) == (ms - STALENESS_THRESHOLD * 1000) \div 1000

\* new URL(u).pathname.slice(1): the path without its leading slash.
urlToObjectName(pathname) == SubSeq(pathname, 2, Len(pathname))

----------------------------------------------------------------------------
(* Requests.                                                               *)

Reqs == 1..MaxReqs

\* request.headers: header name -> value, for the headers present.
NoHeaders == <<>>

Headers(id, value) == (TOKEN_ID_HEADER :> id) @@ (TOKEN_VALUE_HEADER :> value)

OnlyId(id) == (TOKEN_ID_HEADER :> id)

OnlyValue(value) == (TOKEN_VALUE_HEADER :> value)

Request(method, pathname, headers, body) ==
    [method |-> method, pathname |-> pathname, headers |-> headers, body |-> body]

\* What a request found in the stores when it arrived (kept where requests
\* run one at a time).
NoSnap == [set |-> FALSE, db |-> {}, objects |-> <<>>, bg |-> {}]

Snap == [set |-> TRUE, db |-> db, objects |-> CacheObjects(bucket), bg |-> bg]

\* A slot with no request in it.
IdleReq ==
    [pc |-> "idle", request |-> Request("", <<>>, NoHeaders, ""),
     t0 |-> 0, authNow |-> 0, storedValue |-> NULL,
     nowInEpochSeconds |-> 0, putSucceeded |-> "unset",
     status |-> 0, body |-> "", pre |-> NoSnap]

\* new Response(body, {status})
Respond(q, status, body) ==
    [q EXCEPT !.pc = "done", !.status = status, !.body = body]

\* An exception that leaves the handler: the request ends without a
\* response of the worker's own.
Throw(q) == [q EXCEPT !.pc = "threw"]

\* Mutant of router: the routes match on the method alone.
routerAnyPath(method, pathname) ==
    IF method = "PUT" THEN "handlePut"
    ELSE IF method = "GET" THEN "handleGet"
    ELSE "notFound"

\* The routes of lines 317-332, tried in order: the handler of the first
\* that matches.
router(method, pathname) ==
    IF method = "PUT" /\ StartsWith(pathname, Path(AcPrefix)) THEN "handlePut"
    ELSE IF method = "PUT" /\ StartsWith(pathname, Path(CasPrefix)) THEN "handlePut"
    ELSE IF method = "GET" /\ StartsWith(pathname, Path(AcPrefix)) THEN "handleGet"
    ELSE IF method = "GET" /\ StartsWith(pathname, Path(CasPrefix)) THEN "handleGet"
    ELSE "notFound"

\* authenticated, lines 225-227: both headers are there.
HeadersPresent(headers) ==
    TOKEN_ID_HEADER \in DOMAIN headers /\ TOKEN_VALUE_HEADER \in DOMAIN headers

\* 'tokens/' + id
TokenKey(headers) == TokensPrefix \o headers[TOKEN_ID_HEADER]

\* Mutant of ValueMatches: any value is accepted for an id that has a token.
ValueMatchesAnyValue(storedValue, headers) == ~storedValue.null

\* authenticated, lines 234-240: the verdict on the value retrieve gave.
ValueMatches(storedValue, headers) ==
    IF storedValue.null THEN FALSE
    ELSE headers[TOKEN_VALUE_HEADER] = storedValue.text

\* Mutant of AfterAuthenticated: handleGet hands its last_used update to
\* ctx.waitUntil before it looks at the verdict.
AfterAuthenticatedRefreshFirst(r, q, storedValue) ==
    LET objKey == urlToObjectName(q.request.pathname)
        now == EpochSeconds(clock)
        q2 == [q EXCEPT !.nowInEpochSeconds = now]
        isGet == q.request.method = "GET"
    IN  /\ bg' = IF isGet THEN bg \cup {Row(objKey, now)} ELSE bg
        /\ req' = [req EXCEPT ![r] =
                     IF ~ValueMatches(storedValue, q.request.headers)
                     THEN Respond(q, 401, "Not authenticated")
                     ELSE IF isGet THEN [q2 EXCEPT !.pc = "get"]
                     ELSE [q2 EXCEPT !.pc = "upsert"]]

\* The handler from the return of authenticated() to its first store call:
\* 401, or the time is read and the upsert (PUT) or the blob read (GET) is
\* issued, the GET handing its last_used update to ctx.waitUntil.
AfterAuthenticated(r, q, storedValue) ==
    IF ~ValueMatches(storedValue, q.request.headers)
    THEN /\ req' = [req EXCEPT ![r] = Respond(q, 401, "Not authenticated")]
         /\ bg' = bg
    ELSE LET objKey == urlToObjectName(q.request.pathname)
             now == EpochSeconds(clock)
             q2 == [q EXCEPT !.nowInEpochSeconds = now]
         IN  IF router(q.request.method, q.request.pathname) = "handlePut"
             THEN /\ req' = [req EXCEPT ![r] = [q2 EXCEPT !.pc = "upsert"]]
                  /\ bg' = bg
             ELSE /\ req' = [req EXCEPT ![r] = [q2 EXCEPT !.pc = "get"]]
                  /\ bg' = bg \cup {Row(objKey, now)}

\* fetch: the router picks the handler; the handler calls authenticated(),
\* which checks the headers and asks the token cache.  A cache hit decides
\* at once; a miss leaves the request waiting for fetchFromR2.
fetch(r, request, snap) ==
    /\ req[r].pc = "idle"
    /\ LET q == [IdleReq EXCEPT !.request = request, !.t0 = clock, !.pre = snap]
           now == JsDate(clock)
       IN  IF router(request.method, request.pathname) = "notFound"
           THEN /\ req' = [req EXCEPT ![r] = Respond(q, 404, "Not found")]
                /\ bg' = bg
           ELSE IF ~HeadersPresent(request.headers)
           THEN /\ req' = [req EXCEPT ![r] = Respond(q, 401, "Not authenticated")]
                /\ bg' = bg
           ELSE IF CacheHit(tokens, TokenKey(request.headers), now)
           THEN AfterAuthenticated(r, q, tokens[TokenKey(request.headers)].value)
           ELSE /\ req' = [req EXCEPT ![r] = [q EXCEPT !.pc = "auth", !.authNow = clock]]
                /\ bg' = bg
    /\ used.requests < MaxRequests
    /\ used' = [used EXCEPT !.requests = @ + 1]
    /\ UNCHANGED <<clock, bucket, db, tokens, sweep, pendingDel>>

\* Mutant of retrieve: the cache is not keyed by the id; once it holds an
\* entry, the value of an entry is returned for whatever id is asked.
retrieveAnyId(r) ==
    /\ req[r].pc = "auth"
    /\ LET q == req[r]
           key == TokenKey(q.request.headers)
           value == IF DOMAIN tokens # {}
                    THEN tokens[CHOOSE k \in DOMAIN tokens : TRUE].value
                    ELSE fetchFromR2(key, bucket)
       IN  /\ tokens' = CacheStore(tokens, key, CacheEntry(JsDate(q.authNow), value))
           /\ AfterAuthenticated(r, q, value)
    /\ UNCHANGED <<clock, bucket, db, sweep, pendingDel, used>>

\* TokenCache.retrieve after the miss: fetchFn() reads the bucket, the
\* entry is stored with the Date taken before the read, and the handler
\* goes on with the value.
retrieve(r) ==
    /\ req[r].pc = "auth"
    /\ LET q == req[r]
           key == TokenKey(q.request.headers)
           value == fetchFromR2(key, bucket)
       IN  /\ tokens' = CacheStore(tokens, key, CacheEntry(JsDate(q.authNow), value))
           /\ AfterAuthenticated(r, q, value)
    /\ UNCHANGED <<clock, bucket, db, sweep, pendingDel, used>>

\* The two halves of retrieve after the miss, for calls that run side by
\* side.  fetchFn(): fetchFromR2 reads the token object; the call then
\* waits to be resumed with the value.
fetchFn(r) ==
    /\ req[r].pc = "auth"
    /\ LET key == TokenKey(req[r].request.headers)
       IN  req' = [req EXCEPT ![r].pc = "fetched",
                              ![r].storedValue = fetchFromR2(key, bucket)]
    /\ UNCHANGED <<clock, bucket, db, tokens, bg, sweep, pendingDel, used>>

\* retrieve resumed after await fetchFn(): the entry is stored from the
\* call's own now and value, and the handler goes on with the value.
retrieveStore(r) ==
    /\ req[r].pc = "fetched"
    /\ LET q == req[r]
           key == TokenKey(q.request.headers)
       IN  /\ tokens' = CacheStore(tokens, key,
                                   CacheEntry(JsDate(q.authNow), q.storedValue))
           /\ AfterAuthenticated(r, q, q.storedValue)
    /\ UNCHANGED <<clock, bucket, db, sweep, pendingDel, used>>

\* Mutant of handlePutUpsert: bucket.put is issued with the upsert not yet
\* applied (the await is missing).
handlePutUpsertNoAwait(r) ==
    /\ req[r].pc = "upsert"
    /\ req' = [req EXCEPT ![r].pc = "put"]
    /\ UNCHANGED <<clock, bucket, db, tokens, bg, sweep, pendingDel, used>>

\* handlePut, lines 270-277: the upsert has run; bucket.put is issued.
handlePutUpsert(r) ==
    /\ req[r].pc = "upsert"
    /\ db' = Upsert(db, urlToObjectName(req[r].request.pathname),
                    req[r].nowInEpochSeconds)
    /\ req' = [req EXCEPT ![r].pc = "put"]
    /\ UNCHANGED <<clock, bucket, tokens, bg, sweep, pendingDel, used>>

\* Mutant of handlePutUpsertFails: the rejection is swallowed and handlePut
\* goes on to store the object.
handlePutUpsertFailsGoesOn(r) ==
    /\ req[r].pc = "upsert"
    /\ req' = [req EXCEPT ![r].pc = "put"]
    /\ UNCHANGED <<clock, bucket, db, tokens, bg, sweep, pendingDel, used>>

\* The upsert's run() rejects: the exception leaves handlePut.
handlePutUpsertFails(r) ==
    /\ req[r].pc = "upsert"
    /\ req' = [req EXCEPT ![r] = Throw(req[r])]
    /\ UNCHANGED <<clock, bucket, db, tokens, bg, sweep, pendingDel, used>>

\* handlePut, lines 277-281: bucket.put stored the object.
handlePutStore(r) ==
    /\ req[r].pc = "put"
    /\ bucket' = BucketPut(bucket, urlToObjectName(req[r].request.pathname),
                           req[r].request.body)
    /\ req' = [req EXCEPT ![r] =
                  Respond([req[r] EXCEPT !.putSucceeded = "truthy"], 201, ":thumbs-up:")]
    /\ UNCHANGED <<clock, db, tokens, bg, sweep, pendingDel, used>>

\* Mutant of handlePutStoreFails: the failed upload takes its row back.
handlePutStoreFailsRollsBack(r) ==
    /\ req[r].pc = "put"
    /\ db' = deleteKeysFromDB(db, {urlToObjectName(req[r].request.pathname)})
    /\ req' = [req EXCEPT ![r] =
                  Respond([req[r] EXCEPT !.putSucceeded = "falsy"], 500, "Upload failed")]
    /\ UNCHANGED <<clock, bucket, tokens, bg, sweep, pendingDel, used>>

\* bucket.put gave a falsy result: nothing is stored.
handlePutStoreFails(r) ==
    /\ req[r].pc = "put"
    /\ req' = [req EXCEPT ![r] =
                  Respond([req[r] EXCEPT !.putSucceeded = "falsy"], 500, "Upload failed")]
    /\ UNCHANGED <<clock, bucket, db, tokens, bg, sweep, pendingDel, used>>

\* bucket.put rejects: the exception leaves handlePut.
handlePutStoreThrows(r) ==
    /\ req[r].pc = "put"
    /\ req' = [req EXCEPT ![r] = Throw([req[r] EXCEPT !.putSucceeded = "threw"])]
    /\ UNCHANGED <<clock, bucket, db, tokens, bg, sweep, pendingDel, used>>

\* Mutant of handleGetRead: the index decides whether the object exists.
handleGetReadByRow(r) ==
    /\ req[r].pc = "get"
    /\ LET objKey == urlToObjectName(req[r].request.pathname)
       IN  req' = [req EXCEPT ![r] =
                     IF RowsOf(db, objKey) # {}
                     THEN Respond(req[r], 200,
                                  IF objKey \in DOMAIN bucket THEN bucket[objKey] ELSE "")
                     ELSE Respond(req[r], 404, "Not found")]
    /\ UNCHANGED <<clock, bucket, db, tokens, bg, sweep, pendingDel, used>>

\* handleGet, lines 309-313: bucket.get answered.
handleGetRead(r) ==
    /\ req[r].pc = "get"
    /\ LET objKey == urlToObjectName(req[r].request.pathname)
       IN  req' = [req EXCEPT ![r] =
                     IF objKey \in DOMAIN bucket
                     THEN Respond(req[r], 200, bucket[objKey])
                     ELSE Respond(req[r], 404, "Not found")]
    /\ UNCHANGED <<clock, bucket, db, tokens, bg, sweep, pendingDel, used>>

\* The client has its answer (a response, or the runtime's error for an
\* exception): the slot is free again.
respond(r) ==
    /\ req[r].pc \in {"done", "threw"}
    /\ req' = [req EXCEPT ![r] = IdleReq]
    /\ UNCHANGED <<clock, bucket, db, tokens, bg, sweep, pendingDel, used>>

\* The UPDATE handed to ctx.waitUntil takes effect.
refreshApplies(t) ==
    /\ t \in bg
    /\ db' = Update(db, t.last_used, t.key)
    /\ bg' = bg \ {t}
    /\ UNCHANGED <<clock, bucket, tokens, req, sweep, pendingDel, used>>

\* Mutant of refreshFails: the handler awaits the UPDATE, whose rejection
\* leaves handleGet as an exception.
refreshFailsReported(t) ==
    /\ t \in bg
    /\ bg' = bg \ {t}
    /\ req' = [r \in Reqs |->
                 IF /\ req[r].pc = "get"
                    /\ t = Row(urlToObjectName(req[r].request.pathname),
                               req[r].nowInEpochSeconds)
                 THEN Throw(req[r])
                 ELSE req[r]]
    /\ UNCHANGED <<clock, bucket, db, tokens, sweep, pendingDel, used>>

\* The UPDATE handed to ctx.waitUntil rejects or is dropped: nobody looks.
refreshFails(t) ==
    /\ t \in bg
    /\ bg' = bg \ {t}
    /\ UNCHANGED <<clock, bucket, db, tokens, req, sweep, pendingDel, used>>

\* flushCaches
flushCaches ==
    /\ DOMAIN tokens # {}
    /\ tokens' = <<>>
    /\ UNCHANGED <<clock, bucket, db, req, bg, sweep, pendingDel, used>>

----------------------------------------------------------------------------
(* The sweeper.                                                            *)

\* No invocation running; last tells how the latest one ended.
IdleSweep ==
    [pc |-> "idle", marker |-> <<>>, staleTime |-> 0, keys |-> <<>>, last |-> "none"]

\* scheduled is invoked: getStaleObjectsFromDB starts with an empty marker
\* and the stale time of this moment, and issues its first query.
scheduled ==
    /\ sweep.pc = "idle"
    /\ used.sweeps < MaxSweeps
    /\ used' = [used EXCEPT !.sweeps = @ + 1]
    /\ sweep' = [pc |-> "query", marker |-> <<>>, staleTime |-> StaleTime(clock),
                 keys |-> <<>>, last |-> "running"]
    /\ UNCHANGED <<clock, bucket, db, tokens, req, bg, pendingDel>>

\* Mutant of getStaleObjectsFromDB: the generator returns after its first
\* batch.
getStaleObjectsFromDBOneBatch ==
    /\ sweep.pc = "query"
    /\ \E keys \in QueryResults(db, sweep.marker, sweep.staleTime,
                                STALE_OBJECT_BATCH_SIZE) :
          IF Len(keys) = 0 \/ sweep.marker # <<>>
          THEN /\ sweep' = [IdleSweep EXCEPT !.last = "completed"]
               /\ pendingDel' = pendingDel
          ELSE /\ sweep' = [sweep EXCEPT !.pc = "delete", !.keys = keys,
                                         !.marker = keys[Len(keys)]]
               /\ pendingDel' = pendingDel \cup {Range(keys)}
    /\ UNCHANGED <<clock, bucket, db, tokens, req, bg, used>>

\* getStaleObjectsFromDB, lines 342-357, and scheduled, lines 380-382: the
\* query answers.  No rows: the generator returns and scheduled ends.  Rows:
\* the marker becomes the last key of the result, the batch is yielded,
\* env.BUCKET.delete(keys) is called without await and deleteKeysFromDB is
\* issued.
getStaleObjectsFromDB ==
    /\ sweep.pc = "query"
    /\ \E keys \in QueryResults(db, sweep.marker, sweep.staleTime,
                                STALE_OBJECT_BATCH_SIZE) :
          IF Len(keys) = 0
          THEN /\ sweep' = [IdleSweep EXCEPT !.last = "completed"]
               /\ pendingDel' = pendingDel
          ELSE /\ sweep' = [sweep EXCEPT !.pc = "delete", !.keys = keys,
                                         !.marker = keys[Len(keys)]]
               /\ pendingDel' = pendingDel \cup {Range(keys)}
    /\ UNCHANGED <<clock, bucket, db, tokens, req, bg, used>>

\* scheduled, line 382: the DELETE has run; the loop asks for the next batch.
scheduledDeleteKeys ==
    /\ sweep.pc = "delete"
    /\ db' = deleteKeysFromDB(db, Range(sweep.keys))
    /\ sweep' = [sweep EXCEPT !.pc = "query", !.keys = <<>>]
    /\ UNCHANGED <<clock, bucket, tokens, req, bg, pendingDel, used>>

\* The DELETE rejects: the exception leaves scheduled.
scheduledDeleteKeysFails ==
    /\ sweep.pc = "delete"
    /\ sweep' = [IdleSweep EXCEPT !.last = "aborted"]
    /\ UNCHANGED <<clock, bucket, db, tokens, req, bg, pendingDel, used>>

\* A bucket.delete(keys) that scheduled did not wait for takes effect.
bucketDeleteSettles(keys) ==
    /\ keys \in pendingDel
    /\ bucket' = BucketDelete(bucket, keys)
    /\ pendingDel' = pendingDel \ {keys}
    /\ UNCHANGED <<clock, db, tokens, req, bg, sweep, used>>

\* A bucket.delete(keys) that scheduled did not wait for rejects, or is
\* dropped: nobody looks.
bucketDeleteFails(keys) ==
    /\ keys \in pendingDel
    /\ pendingDel' = pendingDel \ {keys}
    /\ UNCHANGED <<clock, bucket, db, tokens, req, bg, sweep, used>>

----------------------------------------------------------------------------
(* The environment: time and the token objects an administrator keeps.     *)

\* One second.
TickMs == 1 * 1000

StalenessMs == STALENESS_THRESHOLD * 1000

\* The run starts five and a half seconds into the epoch.
ClockStart == 5 * 1000 + 1000 \div 2

\* A second passes.
Tick ==
    /\ used.ticks < MaxTicks
    /\ clock' = clock + TickMs
    /\ used' = [used EXCEPT !.ticks = @ + 1]
    /\ UNCHANGED <<bucket, db, tokens, req, bg, sweep, pendingDel>>

\* Two weeks pass.
TickStale ==
    /\ clock < StalenessMs
    /\ clock' = clock + StalenessMs
    /\ UNCHANGED <<bucket, db, tokens, req, bg, sweep, pendingDel, used>>

\* The time of a TTL passes.
TtlPasses(ttl) ==
    /\ used.ticks < MaxTicks
    /\ clock' = clock + ttl
    /\ used' = [used EXCEPT !.ticks = @ + 1]
    /\ UNCHANGED <<bucket, db, tokens, req, bg, sweep, pendingDel>>

\* wrangler r2 object put <bucket>/tokens/<id>
putToken(id, value) ==
    /\ fetchFromR2(TokensPrefix \o id, bucket) # Text(value)
    /\ bucket' = BucketPut(bucket, TokensPrefix \o id, value)
    /\ UNCHANGED <<clock, db, tokens, req, bg, sweep, pendingDel, used>>

\* wrangler r2 object delete <bucket>/tokens/<id>
deleteToken(id) ==
    /\ TokensPrefix \o id \in DOMAIN bucket
    /\ bucket' = BucketDelete(bucket, {TokensPrefix \o id})
    /\ UNCHANGED <<clock, db, tokens, req, bg, sweep, pendingDel, used>>

----------------------------------------------------------------------------
(* Initial states and the requests that arrive.                            *)

alice == <<"a">>
bob == <<"b">>

ObjKeys == {Name_ac_a, Name_cas_c}

Bodies == {"hello"}

\* Each of the keys starts with no row and no object, with a row from long
\* ago and its object, or with such a row alone; alice's token is stored.
InitialStores(keys) ==
    {st \in [rows : {{Row(k, 0) : k \in withRow} : withRow \in SUBSET keys},
             objects : SUBSET keys] :
        st.objects \subseteq {row.key : row \in st.rows}}

InitWith(keys, start) ==
    /\ clock = start
    /\ \E st \in InitialStores(keys) :
          /\ db = st.rows
          /\ bucket = [n \in st.objects \cup {TokensPrefix \o alice} |->
                         IF n \in st.objects THEN "old" ELSE "secret1"]
    /\ tokens = <<>>
    /\ req = [r \in Reqs |-> IdleReq]
    /\ bg = {}
    /\ sweep = IdleSweep
    /\ pendingDel = {}
    /\ used = [requests |-> 0, sweeps |-> 0, ticks |-> 0]

\* Uploads and retrievals of the keys by a client that holds alice's token.
RequestsFor(keys) ==
    {Request("PUT", Path(k), Headers(alice, "secret1"), b) :
        k \in keys, b \in Bodies}
    \cup {Request("GET", Path(k), Headers(alice, "secret1"), "") : k \in keys}

\* Requests of any method, path and headers.
AnyRequests ==
    {Request(m, p, h, "hello") :
        m \in {"GET", "PUT", "POST"},
        p \in {Path(Name_ac_a), Path(Name_cas_c), Path_other, Path_root},
        h \in {NoHeaders, OnlyId(alice), OnlyValue("secret1"),
               Headers(alice, "secret1"), Headers(alice, "secret2"),
               Headers(bob, "secret1")}}

\* No request is being handled, no sweep is running and no promise is
\* unsettled.
Quiescent ==
    /\ \A r \in Reqs : req[r].pc = "idle"
    /\ sweep.pc = "idle"
    /\ bg = {}
    /\ pendingDel = {}

----------------------------------------------------------------------------
(* Spec: requests and the sweeper run concurrently, their store calls      *)
(* interleaved in every order.  The run starts two weeks after the rows    *)
(* from long ago were last used, and is over before the clock moves on.    *)

\* The slot a new request takes: the first free one.
FreeSlot(r) == req[r].pc = "idle" /\ \A o \in Reqs : o < r => req[o].pc # "idle"

\* Every answer has reached its client.  An answer is delivered as soon as
\* it is there: nothing else happens in between.
Delivered == \A r \in Reqs : req[r].pc \notin {"done", "threw"}

Init == InitWith({Name_ac_a}, ClockStart + StalenessMs)

Next ==
    \/ \E r \in Reqs : respond(r)
    \/ Delivered /\ \E r \in Reqs, q \in RequestsFor({Name_ac_a}) : FreeSlot(r) /\ fetch(r, q, NoSnap)
    \/ Delivered /\ \E r \in Reqs : retrieve(r)
    \/ Delivered /\ \E r \in Reqs : handlePutUpsert(r)
    \/ Delivered /\ \E r \in Reqs : handlePutUpsertFails(r)
    \/ Delivered /\ \E r \in Reqs : handlePutStore(r)
    \/ Delivered /\ \E r \in Reqs : handlePutStoreFails(r)
    \/ Delivered /\ \E r \in Reqs : handlePutStoreThrows(r)
    \/ Delivered /\ \E r \in Reqs : handleGetRead(r)
    \/ Delivered /\ \E t \in bg : refreshApplies(t)
    \/ Delivered /\ \E t \in bg : refreshFails(t)
    \/ Delivered /\ scheduled
    \/ Delivered /\ getStaleObjectsFromDB
    \/ Delivered /\ scheduledDeleteKeys
    \/ Delivered /\ scheduledDeleteKeysFails
    \/ Delivered /\ \E keys \in pendingDel : bucketDeleteSettles(keys)
    \/ Delivered /\ \E keys \in pendingDel : bucketDeleteFails(keys)

Spec == Init /\ [][Next]_vars

----------------------------------------------------------------------------
(* SpecSeq: one operation at a time.  A request or a sweep starts only     *)
(* when nothing else is running or pending; inside an operation every      *)
(* store call may fail.                                                    *)

InitSeq == InitWith(ObjKeys, ClockStart)

NextSeq ==
    \/ respond(1)
    \/ Delivered /\ Quiescent /\ \E q \in RequestsFor(ObjKeys) : fetch(1, q, Snap)
    \/ Delivered /\ retrieve(1)
    \/ Delivered /\ handlePutUpsert(1)
    \/ Delivered /\ handlePutUpsertFails(1)
    \/ Delivered /\ handlePutStore(1)
    \/ Delivered /\ handlePutStoreFails(1)
    \/ Delivered /\ handlePutStoreThrows(1)
    \/ Delivered /\ handleGetRead(1)
    \/ Delivered /\ \E t \in bg : refreshApplies(t)
    \/ Delivered /\ \E t \in bg : refreshFails(t)
    \/ Delivered /\ Quiescent /\ scheduled
    \/ Delivered /\ getStaleObjectsFromDB
    \/ Delivered /\ scheduledDeleteKeys
    \/ Delivered /\ scheduledDeleteKeysFails
    \/ Delivered /\ \E keys \in pendingDel : bucketDeleteSettles(keys)
    \/ Delivered /\ \E keys \in pendingDel : bucketDeleteFails(keys)
    \/ Delivered /\ Tick
    \/ Delivered /\ TickStale

SpecSeq == InitSeq /\ [][NextSeq]_vars

----------------------------------------------------------------------------
(* SpecAuth: requests of every method, path and headers, one at a time,    *)
(* while the administrator stores, replaces and deletes tokens and time    *)
(* passes.                                                                 *)

NextAuth ==
    \/ respond(1)
    \/ Delivered /\ Quiescent /\ \E q \in AnyRequests : fetch(1, q, Snap)
    \/ Delivered /\ retrieve(1)
    \/ Delivered /\ handlePutUpsert(1)
    \/ Delivered /\ handlePutStore(1)
    \/ Delivered /\ handleGetRead(1)
    \/ Delivered /\ \E t \in bg : refreshApplies(t)
    \/ Delivered /\ \E id \in {alice}, value \in {"secret1", "secret2"} : putToken(id, value)
    \/ Delivered /\ \E id \in {alice} : deleteToken(id)
    \/ Delivered /\ flushCaches
    \/ Delivered /\ Tick

SpecAuth == InitSeq /\ [][NextAuth]_vars

----------------------------------------------------------------------------
(* SpecPair: a client's requests one after another, none failing at a      *)
(* store and no sweep running.  Every request stays in its slot once       *)
(* answered, so the slots hold the run's requests in their order of        *)
(* arrival; a last_used update may settle long after its request was       *)
(* answered.                                                               *)

\* A request is being handled.
Running == \E r \in Reqs : req[r].pc \notin {"idle", "done", "threw"}

\* Uploads of two different bodies and retrievals, with alice's token.
RequestsPair ==
    {Request("PUT", Path(k), Headers(alice, "secret1"), b) :
        k \in ObjKeys, b \in {"hello", "bye"}}
    \cup {Request("GET", Path(k), Headers(alice, "secret1"), "") : k \in ObjKeys}

NextPair ==
    \/ \E r \in Reqs, q \in RequestsPair : FreeSlot(r) /\ ~Running /\ fetch(r, q, Snap)
    \/ \E r \in Reqs : retrieve(r)
    \/ \E r \in Reqs : handlePutUpsert(r)
    \/ \E r \in Reqs : handlePutStore(r)
    \/ \E r \in Reqs : handleGetRead(r)
    \/ \E t \in bg : refreshApplies(t)
    \/ Tick

SpecPair == InitSeq /\ [][NextPair]_vars

----------------------------------------------------------------------------
(* SpecSweep: the sweeper alone, no request arriving and no store call     *)
(* failing.  Three keys, more than a batch; each starts with no row, or    *)
(* with a row (and perhaps its object) last used long ago, exactly two     *)
(* weeks ago, or a second less than two weeks ago.                         *)

SweepKeys == {Name_ac_a, Name_ac_b, Name_cas_c}

\* The seconds the rows were last used in: 0 is long ago; the second is the
\* stale time of a sweep at SweepStart, the third the second after it.
SweepAges == {0, StaleTime(ClockStart + StalenessMs), StaleTime(ClockStart + StalenessMs) + 1}

\* What a key starts with: last_used of its row (-1: no row) and whether its
\* object is in the bucket.
SweepStores ==
    {st \in [SweepKeys -> [last_used : SweepAges \cup {-1}, object : BOOLEAN]] :
        \A k \in SweepKeys : st[k].object => st[k].last_used # -1}

InitSweep ==
    /\ clock = ClockStart + StalenessMs
    /\ \E st \in SweepStores :
          /\ db = {Row(k, st[k].last_used) : k \in {x \in SweepKeys : st[x].last_used # -1}}
          /\ bucket = [n \in {x \in SweepKeys : st[x].object} \cup {TokensPrefix \o alice} |->
                         IF n \in SweepKeys THEN "old" ELSE "secret1"]
    /\ tokens = <<>>
    /\ req = [r \in Reqs |-> IdleReq]
    /\ bg = {}
    /\ sweep = IdleSweep
    /\ pendingDel = {}
    /\ used = [requests |-> 0, sweeps |-> 0, ticks |-> 0]

NextSweep ==
    \/ scheduled
    \/ getStaleObjectsFromDB
    \/ scheduledDeleteKeys
    \/ \E keys \in pendingDel : bucketDeleteSettles(keys)

SpecSweep == InitSweep /\ [][NextSweep]_vars

----------------------------------------------------------------------------
(* SpecLive: the worker over an unbounded time.  One key; requests and     *)
(* sweeps one at a time; no sweep fails.  Time passes in periods of two    *)
(* weeks, in each of which the cron trigger fires at least once and a few  *)
(* requests arrive.                                                        *)
(*                                                                         *)
(* The program reads the clock only to compare the times it stored with    *)
(* times it reads later, so a period's end is written as seen from the new *)
(* moment: the clock shows the same reading and every stored time lies two *)
(* weeks further back.  Times from before the origin count as the origin:  *)
(* they are stale for every sweep alike.                                   *)

ShiftBack(t, by) == IF t > by THEN t - by ELSE 0

\* Two weeks pass, once the period's operations are over and a sweep has
\* run in it; the counts of the new period start at zero.
TwoWeeksPass ==
    /\ Quiescent
    /\ used.sweeps >= 1
    /\ db' = {Row(row.key, ShiftBack(row.last_used, STALENESS_THRESHOLD)) : row \in db}
    /\ tokens' = [k \in DOMAIN tokens |->
                    [tokens[k] EXCEPT !.expiration.date = ShiftBack(@, StalenessMs)]]
    /\ used' = [requests |-> 0, sweeps |-> 0, ticks |-> 0]
    /\ UNCHANGED <<clock, bucket, req, bg, sweep, pendingDel>>

InitLive == InitWith({Name_ac_a}, ClockStart + StalenessMs)

LiveFetch == Delivered /\ Quiescent /\ \E q \in RequestsFor({Name_ac_a}) : fetch(1, q, NoSnap)

LiveHandler ==
    \/ respond(1)
    \/ Delivered /\ retrieve(1)
    \/ Delivered /\ handlePutUpsert(1)
    \/ Delivered /\ handlePutStore(1)
    \/ Delivered /\ handlePutStoreFails(1)
    \/ Delivered /\ handleGetRead(1)

LiveRefresh == Delivered /\ \E t \in bg : refreshApplies(t)

LiveScheduled == Delivered /\ Quiescent /\ scheduled

LiveSweepStep ==
    \/ Delivered /\ getStaleObjectsFromDB
    \/ Delivered /\ scheduledDeleteKeys
    \/ Delivered /\ \E keys \in pendingDel : bucketDeleteSettles(keys)

NextLive ==
    \/ LiveFetch
    \/ LiveHandler
    \/ LiveRefresh
    \/ LiveScheduled
    \/ LiveSweepStep
    \/ TwoWeeksPass

\* The runtime runs every handler, every promise handed to ctx.waitUntil
\* and every sweep to its end; the cron trigger fires; time passes.  Nothing
\* obliges a client to send a request.
FairLive ==
    /\ WF_vars(LiveHandler)
    /\ WF_vars(LiveRefresh)
    /\ WF_vars(LiveScheduled)
    /\ WF_vars(LiveSweepStep)
    /\ WF_vars(TwoWeeksPass)

SpecLive == InitLive /\ [][NextLive]_vars /\ FairLive

----------------------------------------------------------------------------
(* SpecCache: the token cache over time.  Retrievals by alice, whose token *)
(* is stored, and by bob, whose token is not stored at first, one at a     *)
(* time, while tokens are stored and replaced and a second, NEGATIVE_TTL   *)
(* or POSITIVE_TTL passes.                                                 *)

RequestsCache ==
    {Request("GET", Path(Name_ac_a), Headers(id, "secret1"), "") : id \in {alice, bob}}

NextCache ==
    \/ respond(1)
    \/ Delivered /\ Quiescent /\ \E q \in RequestsCache : fetch(1, q, Snap)
    \/ Delivered /\ retrieve(1)
    \/ Delivered /\ handleGetRead(1)
    \/ Delivered /\ \E t \in bg : refreshApplies(t)
    \/ Delivered /\ \E id \in {alice, bob}, value \in {"secret1", "secret2"} : putToken(id, value)
    \/ Delivered /\ Tick
    \/ Delivered /\ \E ttl \in {NEGATIVE_TTL, POSITIVE_TTL} : TtlPasses(ttl)

SpecCache == InitWith({Name_ac_a}, ClockStart) /\ [][NextCache]_vars

----------------------------------------------------------------------------
(* SpecRace: retrievals by alice that run side by side, each a miss of the *)
(* token cache, their fetches and their writes of the entry interleaved in *)
(* every order, while alice's token is replaced or removed and a second    *)
(* passes.  The requests stay in their slots, in the order they arrived.   *)

RequestsRace ==
    {Request("GET", Path(Name_ac_a), Headers(alice, "secret1"), "")}

NextRace ==
    \/ \E r \in Reqs, q \in RequestsRace : FreeSlot(r) /\ fetch(r, q, NoSnap)
    \/ \E r \in Reqs : fetchFn(r)
    \/ \E r \in Reqs : retrieveStore(r)
    \/ \E r \in Reqs : handleGetRead(r)
    \/ \E t \in bg : refreshApplies(t)
    \/ \E value \in {"secret1", "secret2"} : putToken(alice, value)
    \/ deleteToken(alice)
    \/ Tick

SpecRace == InitWith({Name_ac_a}, ClockStart) /\ [][NextRace]_vars

----------------------------------------------------------------------------
(* SpecStable: the token objects are left alone.  Uploads and retrievals   *)
(* with alice's id, whose token is stored, and bob's, whose token is not,  *)
(* each with the stored value or another, one at a time, while a second,   *)
(* NEGATIVE_TTL or POSITIVE_TTL passes between and inside them.            *)

RequestsStable ==
    {Request(m, Path(Name_ac_a), Headers(id, value), "hello") :
        m \in {"GET", "PUT"}, id \in {alice, bob}, value \in {"secret1", "secret2"}}

NextStable ==
    \/ respond(1)
    \/ Delivered /\ Quiescent /\ \E q \in RequestsStable : fetch(1, q, Snap)
    \/ Delivered /\ retrieve(1)
    \/ Delivered /\ handlePutUpsert(1)
    \/ Delivered /\ handlePutStore(1)
    \/ Delivered /\ handleGetRead(1)
    \/ Delivered /\ \E t \in bg : refreshApplies(t)
    \/ Delivered /\ Tick
    \/ Delivered /\ \E ttl \in {NEGATIVE_TTL, POSITIVE_TTL} : TtlPasses(ttl)

SpecStable == InitWith({Name_ac_a}, ClockStart) /\ [][NextStable]_vars

----------------------------------------------------------------------------
(* The claims.                                                             *)

\* The object a request names.
ObjKeyOf(q) == urlToObjectName(q.request.pathname)

\* A request for one of the four cache routes: PUT or GET under /ac/ or /cas/.
IsCacheRoute(request) ==
    /\ request.method \in {"PUT", "GET"}
    /\ \/ StartsWith(request.pathname, <<"/", "a", "c", "/">>)
       \/ StartsWith(request.pathname, <<"/", "c", "a", "s", "/">>)

\* The request lacks a header, names an id with no token object in the
\* bucket b, or presents a value other than that object's contents.
BadCredentials(headers, b) ==
    IF TOKEN_ID_HEADER \notin DOMAIN headers \/ TOKEN_VALUE_HEADER \notin DOMAIN headers
    THEN TRUE
    ELSE LET name == <<"t", "o", "k", "e", "n", "s", "/">> \o headers[TOKEN_ID_HEADER]
         IN  name \notin DOMAIN b \/ b[name] # headers[TOKEN_VALUE_HEADER]

\* C1 (as claimed): with one operation at a time, each free to fail at its
\* blob write, blob delete or index delete, in every state (those inside an
\* Upload or a sweep batch included) every ac/ or cas/ object in the bucket
\* has a row in CacheEntries.
C1_SupersetInvariant ==
    \A n \in DOMAIN bucket : IsCacheName(n) => RowsOf(db, n) # {}

\* C2 (as claimed): when an Upload of a key has just been answered 201 and
\* the sweep that ran alongside it has completed, with its bucket.delete
\* settled, the key's object being in the bucket implies the key's row being
\* in CacheEntries.
C2_SupersetAfterUploadAndSweep ==
    \A r \in Reqs :
        (/\ req[r].pc = "done"
         /\ req[r].request.method = "PUT"
         /\ req[r].status = 201
         /\ sweep.pc = "idle"
         /\ sweep.last = "completed"
         /\ pendingDel = {})
        => (ObjKeyOf(req[r]) \in DOMAIN bucket => RowsOf(db, ObjKeyOf(req[r])) # {})

\* C3: an Upload's bucket.put is issued only in a step that leaves the
\* Upload's own row (its key, its nowInEpochSeconds) in CacheEntries, and an
\* ac/ or cas/ object is written or replaced only by an Upload of that key
\* whose bucket.put has been issued: no Upload writes, or begins to write,
\* its blob with its upsert not yet applied.
C3_UpsertBeforeBlobWrite ==
    [][/\ \A r \in Reqs :
            (req[r].pc # "put" /\ req'[r].pc = "put")
            => Row(ObjKeyOf(req'[r]), req'[r].nowInEpochSeconds) \in db'
       /\ \A n \in DOMAIN bucket' :
            (IsCacheName(n) /\ (n \notin DOMAIN bucket \/ bucket'[n] # bucket[n]))
            => \E r \in Reqs : req[r].pc = "put" /\ ObjKeyOf(req[r]) = n
      ]_vars

\* C3, witness: an Upload has its bucket.put in flight and its row in the
\* index, while the object is not in the bucket yet.
C3_Witness ==
    \E r \in Reqs :
        /\ req[r].pc = "put"
        /\ Row(ObjKeyOf(req[r]), req[r].nowInEpochSeconds) \in db
        /\ ObjKeyOf(req[r]) \notin DOMAIN bucket

\* C4 (as claimed): when the index delete of a batch takes effect, the
\* bucket.delete of that batch is no longer pending and has taken effect:
\* none of the batch's objects is in the bucket.
C4_BlobDeleteBeforeIndexDelete ==
    [][(sweep.pc = "delete" /\ sweep'.pc = "query")
       => /\ Range(sweep.keys) \notin pendingDel
          /\ \A k \in Range(sweep.keys) : k \notin DOMAIN bucket
      ]_vars

\* The step decides whether request r is authenticated.
AuthDecided(r) == req[r].pc \in {"idle", "auth"} /\ req'[r].pc \notin {"idle", "auth"}

C6_UnauthenticatedTouchesNothing ==
    \A r \in Reqs :
        (req[r].pc = "done" /\ req[r].status = 401)
        => /\ req[r].pre.set
           /\ db = req[r].pre.db
           /\ CacheObjects(bucket) = req[r].pre.objects
           /\ bg = req[r].pre.bg

\* C6, witness: a GET with a wrong value for a key that has a row and an
\* object is answered 401.
C6_Witness ==
    \E r \in Reqs :
        /\ req[r].pc = "done"
        /\ req[r].status = 401
        /\ req[r].request.method = "GET"
        /\ HeadersPresent(req[r].request.headers)
        /\ RowsOf(db, ObjKeyOf(req[r])) # {}
        /\ ObjKeyOf(req[r]) \in DOMAIN bucket

\* C7: when retrieve answers a request on a cache route whose id has a
\* stored token and no entry in the token cache, the request passes
\* authentication (it goes on to its store calls, no 401) if its value is
\* the stored one, and is answered 401 if its value is any other.
C7_StoredCredentialDecides ==
    [][\A r \in Reqs :
          LET h == req[r].request.headers
              name == TokensPrefix \o h[TOKEN_ID_HEADER]
          IN  (/\ req[r].pc = "auth"
               /\ req'[r].pc # "auth"
               /\ name \notin DOMAIN tokens
               /\ name \in DOMAIN bucket)
              => IF h[TOKEN_VALUE_HEADER] = bucket[name]
                 THEN req'[r].pc = (IF req[r].request.method = "PUT"
                                    THEN "upsert" ELSE "get")
                 ELSE req'[r].pc = "done" /\ req'[r].status = 401
      ]_vars

\* C7, witness: a PUT under /cas/ with alice's id and stored value has
\* passed authentication with the cache filled by this very request.
C7_Witness ==
    \E r \in Reqs :
        /\ req[r].pc = "upsert"
        /\ req[r].request.pathname = Path(Name_cas_c)
        /\ req[r].request.headers = Headers(alice, "secret1")
        /\ used.requests = 1

\* C8: a request whose method is not GET or PUT, or whose path is not under
\* /ac/ or /cas/, is answered 404 in the step it arrives in, with or without
\* authentication headers, and that step changes neither store and hands
\* nothing to ctx.waitUntil.
C8_OtherRequestsGet404 ==
    [][\A r \in Reqs :
          (req[r].pc = "idle" /\ req'[r].pc # "idle" /\ ~IsCacheRoute(req'[r].request))
          => /\ req'[r].pc = "done"
             /\ req'[r].status = 404
             /\ db' = db
             /\ bucket' = bucket
             /\ bg' = bg
      ]_vars

\* C8, witness: a PUT outside /ac/ and /cas/ that carries alice's valid
\* token is answered 404.
C8_Witness ==
    \E r \in Reqs :
        /\ req[r].pc = "done"
        /\ req[r].status = 404
        /\ req[r].request.method = "PUT"
        /\ req[r].request.pathname = Path_other
        /\ req[r].request.headers = Headers(alice, "secret1")
        /\ fetchFromR2(TokensPrefix \o alice, bucket) = Text("secret1")

\* C9: at the answer 201 to an Upload that ran alone, CacheEntries holds
\* exactly one row for the key and its last_used is at least the second the
\* request arrived in, whether or not the key had a row before.
C9_UploadLeavesOneFreshRow ==
    \A r \in Reqs :
        (req[r].pc = "done" /\ req[r].request.method = "PUT" /\ req[r].status = 201)
        => /\ Cardinality(RowsOf(db, ObjKeyOf(req[r]))) = 1
           /\ \A row \in RowsOf(db, ObjKeyOf(req[r])) :
                 row.last_used >= req[r].t0 \div 1000

\* C9, witness: an Upload answered 201 for a key that had an older row when
\* the request arrived.
C9_Witness ==
    \E r \in Reqs :
        /\ req[r].pc = "done"
        /\ req[r].request.method = "PUT"
        /\ req[r].status = 201
        /\ \E old \in RowsOf(req[r].pre.db, ObjKeyOf(req[r])) :
              old.last_used < req[r].t0 \div 1000

\* C10: when bucket.put fails (a falsy result, or an exception) in an
\* Upload that ran alone, the answer is not 201, it is 500 for the falsy
\* result, and the row the Upload upserted is still the key's one row.
C10_FailedPutKeepsRow ==
    \A r \in Reqs :
        (req[r].putSucceeded \in {"falsy", "threw"})
        => /\ req[r].status # 201
           /\ req[r].putSucceeded = "falsy" => (req[r].pc = "done" /\ req[r].status = 500)
           /\ RowsOf(db, ObjKeyOf(req[r]))
                = {Row(ObjKeyOf(req[r]), req[r].nowInEpochSeconds)}

\* C10, witness: an Upload answered 500 whose row is in the index with no
\* object for it in the bucket.
C10_Witness ==
    \E r \in Reqs :
        /\ req[r].pc = "done"
        /\ req[r].putSucceeded = "falsy"
        /\ req[r].status = 500
        /\ RowsOf(db, ObjKeyOf(req[r])) # {}
        /\ ObjKeyOf(req[r]) \notin DOMAIN bucket

\* C11: when an Upload of a key was answered 201 and a later Retrieve of the
\* same key has been answered, with no Upload of the key between the two
\* (and no sweep at all), the Retrieve's answer is 200 with the body the
\* Upload sent, under ac/ and under cas/.
C11_RoundTrip ==
    \A r1 \in Reqs, r2 \in Reqs :
        (/\ r1 < r2
         /\ req[r1].pc = "done" /\ req[r1].request.method = "PUT" /\ req[r1].status = 201
         /\ req[r2].pc = "done" /\ req[r2].request.method = "GET"
         /\ ObjKeyOf(req[r2]) = ObjKeyOf(req[r1])
         /\ \A r \in Reqs :
               (r1 < r /\ r < r2)
               => ~(req[r].request.method = "PUT" /\ ObjKeyOf(req[r]) = ObjKeyOf(req[r1])))
        => (req[r2].status = 200 /\ req[r2].body = req[r1].request.body)

\* C11, witness: an Upload under cas/ replaced an older object with another
\* body, and the Retrieve that followed it has been answered.
C11_Witness ==
    \E r1 \in Reqs, r2 \in Reqs :
        /\ r1 < r2
        /\ req[r1].pc = "done" /\ req[r1].request.method = "PUT" /\ req[r1].status = 201
        /\ req[r1].request.pathname = Path(Name_cas_c)
        /\ Name_cas_c \in DOMAIN req[r1].pre.objects
        /\ req[r1].pre.objects[Name_cas_c] # req[r1].request.body
        /\ req[r2].pc = "done" /\ req[r2].request.method = "GET"
        /\ req[r2].request.pathname = Path(Name_cas_c)

\* The last_used update a Retrieve hands to ctx.waitUntil.
RefreshOf(q) == Row(ObjKeyOf(q), q.nowInEpochSeconds)

\* The key had a row and an object when the request arrived.
FoundRowAndObject(q) ==
    /\ q.pre.set
    /\ RowsOf(q.pre.db, ObjKeyOf(q)) # {}
    /\ ObjKeyOf(q) \in DOMAIN q.pre.objects

\* C12: the step in which the last_used update of a Retrieve settles (it
\* settles successfully here), for a key that had a row and an object when
\* the Retrieve arrived, leads to a state with exactly one row for the key,
\* whose last_used is at least the second the request arrived in.
C12_RetrieveRefreshesRow ==
    [][\A r \in Reqs :
          (/\ req[r].request.method = "GET"
           /\ req[r].pc \in {"get", "done"}
           /\ FoundRowAndObject(req[r])
           /\ RefreshOf(req[r]) \in bg
           /\ RefreshOf(req[r]) \notin bg')
          => /\ Cardinality(RowsOf(db', ObjKeyOf(req[r]))) = 1
             /\ \A row \in RowsOf(db', ObjKeyOf(req[r])) :
                   row.last_used >= req[r].t0 \div 1000
      ]_vars

\* C12, witness: a Retrieve has been answered 200 for a key whose row was
\* older than the request; its update has settled and the row carries the
\* request's time.
C12_Witness ==
    \E r \in Reqs :
        /\ req[r].pc = "done" /\ req[r].request.method = "GET" /\ req[r].status = 200
        /\ FoundRowAndObject(req[r])
        /\ \A old \in RowsOf(req[r].pre.db, ObjKeyOf(req[r])) :
              old.last_used < req[r].t0 \div 1000
        /\ RefreshOf(req[r]) \notin bg
        /\ RowsOf(db, ObjKeyOf(req[r])) = {RefreshOf(req[r])}

\* C13: a Retrieve that ran alone and found no object for its key in the
\* bucket is answered 404, whether or not CacheEntries has a row for the key.
C13_NoBlobGets404 ==
    \A r \in Reqs :
        (/\ req[r].pc = "done" /\ req[r].request.method = "GET"
         /\ req[r].pre.set
         /\ ObjKeyOf(req[r]) \notin DOMAIN req[r].pre.objects)
        => req[r].status = 404

\* C13, witness: a Retrieve of a key with a row and no object (a dangling
\* entry) has been answered 404.
C13_Witness ==
    \E r \in Reqs :
        /\ req[r].pc = "done" /\ req[r].request.method = "GET" /\ req[r].status = 404
        /\ req[r].pre.set
        /\ RowsOf(req[r].pre.db, ObjKeyOf(req[r])) # {}
        /\ ObjKeyOf(req[r]) \notin DOMAIN bucket


\* The row is stale for a sweep that starts now.
IsStale(row) == row.last_used <= StaleTime(clock)

\* C14 (as claimed): when an invocation of the sweeper that ran alone and
\* without store failures has completed, CacheEntries holds no row with
\* last_used <= staleTime and the bucket holds no object of a key that had
\* such a row, however many stale rows there were and wherever their keys
\* fall among the fresh ones.  (Every object starts with a row, fresh rows
\* stay and nothing is written here, so an object of a key that had a stale
\* row is an object with a stale row or with no row.)
C14_SweepRemovesAllStale ==
    (sweep.pc = "idle" /\ sweep.last = "completed")
    => /\ \A row \in db : ~IsStale(row)
       /\ \A n \in DOMAIN bucket : IsCacheName(n) => RowsOf(db, n) # {}

\* C15: no step of a sweep that runs alone deletes a row whose last_used
\* is greater than staleTime, nor deletes or changes the object of a key
\* with such a row: fresh rows and their objects are after the sweep what
\* they were before it.
C15_SweepKeepsFresh ==
    [][\A row \in db :
          ~IsStale(row)
          => /\ row \in db'
             /\ row.key \in DOMAIN bucket
                  => (row.key \in DOMAIN bucket' /\ bucket'[row.key] = bucket[row.key])
      ]_vars

\* C15, witness: the sweep has deleted a batch and its marker has passed the
\* key of a fresh row, which is still there with its object.
C15_Witness ==
    /\ sweep.pc = "query"
    /\ sweep.marker # <<>>
    /\ \E row \in db :
          /\ ~IsStale(row)
          /\ StrLess(row.key, sweep.marker)
          /\ row.key \in DOMAIN bucket

\* C16 (as claimed): once an invocation is over and the bucket.delete calls
\* it made have settled, every object whose deletion did not succeed (it is
\* still in the bucket) has its row in CacheEntries, so that a later
\* invocation selects it again.
C16_FailedDeleteKeepsRows ==
    (sweep.pc = "idle" /\ pendingDel = {})
    => \A n \in DOMAIN bucket : IsCacheName(n) => RowsOf(db, n) # {}

\* C17 (as claimed): when an invocation of the sweeper that ran alone and
\* without store failures has completed, no stale row without an object
\* (a dangling entry) is left in CacheEntries.
C17_DanglingRowRemoved ==
    (sweep.pc = "idle" /\ sweep.last = "completed")
    => \A row \in db : ~(IsStale(row) /\ row.key \notin DOMAIN bucket)


\* C18 (as claimed): once a failed Upload has left the key's row without an
\* object, the row is eventually deleted, unless the key is uploaded again;
\* this in every run in which time keeps passing, the trigger keeps firing
\* and no sweep fails, Retrieves of the key arriving or not.
C18_DanglingRowEventuallyDeleted ==
    (/\ req[1].pc = "done" /\ req[1].request.method = "PUT" /\ req[1].status = 500
     /\ RowsOf(db, Name_ac_a) # {}
     /\ Name_ac_a \notin DOMAIN bucket)
    ~> (\/ RowsOf(db, Name_ac_a) = {}
        \/ req[1].pc = "auth" /\ req[1].request.method = "PUT")


\* The time an entry of the token cache was stored to expire at: the Date
\* of its retrieve call plus its TTL.
ExpiresAt(entry) ==
    IF entry.expiration.type = "string"
    THEN entry.expiration.date + entry.expiration.digits
    ELSE entry.expiration.n

\* The request's answer is 401.
Is401(q) == q.pc = "done" /\ q.status = 401

\* C19 (as claimed): a request that arrives while the token cache holds an
\* entry for its id that has not expired (now < expiresAt) is decided in
\* that step by the entry's value: fetchFn is not invoked and the cache is
\* left as it was.
C19_LiveEntryIsUsed ==
    [][\A r \in Reqs :
          LET h == req'[r].request.headers
              key == TokensPrefix \o h[TOKEN_ID_HEADER]
          IN  (/\ req[r].pc = "idle" /\ req'[r].pc # "idle"
               /\ IsCacheRoute(req'[r].request)
               /\ TOKEN_ID_HEADER \in DOMAIN h /\ TOKEN_VALUE_HEADER \in DOMAIN h
               /\ key \in DOMAIN tokens
               /\ clock < ExpiresAt(tokens[key]))
              => /\ req'[r].pc # "auth"
                 /\ tokens' = tokens
                 /\ Is401(req'[r])
                      <=> (tokens[key].value.null
                           \/ tokens[key].value.text # h[TOKEN_VALUE_HEADER])
      ]_vars

\* C20: a request that arrives while the token cache holds no entry for its
\* id, or one that has expired (now >= expiresAt), is not decided by the
\* cache: fetchFn is invoked, and when it answers the stored entry's value
\* and the verdict are those of the token object then in the bucket.  So a
\* not-found result cached at t gives no 401 to a request that arrives at
\* t + NEGATIVE_TTL or later with the value of a token stored by then.
C20_ExpiredEntryIsNotUsed ==
    [][\A r \in Reqs :
          LET h == req'[r].request.headers
              key == TokensPrefix \o h[TOKEN_ID_HEADER]
              gone == key \notin DOMAIN tokens
          IN  /\ (/\ req[r].pc = "idle" /\ req'[r].pc # "idle"
                   /\ IsCacheRoute(req'[r].request)
                   /\ TOKEN_ID_HEADER \in DOMAIN h /\ TOKEN_VALUE_HEADER \in DOMAIN h
                   /\ (gone \/ clock >= ExpiresAt(tokens[key])))
                  => req'[r].pc = "auth"
              /\ (/\ req[r].pc = "auth" /\ req'[r].pc # "auth"
                   /\ (gone \/ req[r].authNow >= ExpiresAt(tokens[key])))
                  => /\ tokens'[key].value = fetchFromR2(key, bucket)
                     /\ Is401(req'[r])
                          <=> (key \notin DOMAIN bucket
                               \/ bucket[key] # h[TOKEN_VALUE_HEADER])
      ]_vars

\* C20, witness: bob's token was not found and the result cached; his token
\* was stored since, NEGATIVE_TTL or more has passed, and his request with
\* the stored value has gone past the cache to fetchFn.
C20_Witness ==
    \E r \in Reqs :
        /\ req[r].pc = "auth"
        /\ req[r].request.headers = Headers(bob, "secret1")
        /\ TokensPrefix \o bob \in DOMAIN tokens
        /\ tokens[TokensPrefix \o bob].value.null
        /\ req[r].authNow >= ExpiresAt(tokens[TokensPrefix \o bob])
        /\ fetchFromR2(TokensPrefix \o bob, bucket) = Text("secret1")

\* C21 (as claimed): when fetchFn has answered a retrieve call that missed,
\* the cache holds for the id the fetched value with, as its expiration, the
\* number now + POSITIVE_TTL when a value was found and now + NEGATIVE_TTL
\* when none was, now being the time the call started at; POSITIVE_TTL is
\* the greater of the two.
C21_EntryExpiresAtNowPlusTtl ==
    [][\A r \in Reqs :
          LET key == TokensPrefix \o req[r].request.headers[TOKEN_ID_HEADER]
              value == fetchFromR2(key, bucket)
              ttl == IF value.null THEN NEGATIVE_TTL ELSE POSITIVE_TTL
          IN  (req[r].pc = "auth" /\ req'[r].pc # "auth")
              => /\ key \in DOMAIN tokens'
                 /\ tokens'[key].value = value
                 /\ tokens'[key].expiration = JsNumber(req[r].authNow + ttl)
                 /\ POSITIVE_TTL > NEGATIVE_TTL
      ]_vars

\* C22: a Retrieve that ran alone is answered by the bucket alone, 200 with
\* the object's contents or 404 when there is none, whether its last_used
\* update has applied, has failed or is still pending at the answer; and an
\* update is handed to ctx.waitUntil only by a Retrieve that starts, once:
\* no step that settles an update hands over another.
C22_AnswerIgnoresRefresh ==
    /\ [](\A r \in Reqs :
            (/\ req[r].pc \in {"done", "threw"}
             /\ req[r].request.method = "GET"
             /\ req[r].pre.set)
            => /\ req[r].pc = "done"
               /\ IF ObjKeyOf(req[r]) \in DOMAIN req[r].pre.objects
                  THEN /\ req[r].status = 200
                       /\ req[r].body = req[r].pre.objects[ObjKeyOf(req[r])]
                  ELSE req[r].status = 404)
    /\ [][\/ bg' \subseteq bg
          \/ \E r \in Reqs :
                /\ req[r].pc \in {"idle", "auth"}
                /\ req'[r].pc = "get"
                /\ bg' = bg \cup {RefreshOf(req'[r])}
         ]_vars

\* C22, witness: a Retrieve has been answered 200 although its update
\* failed: the update is no longer pending and the key's row is as old as
\* the request found it.
C22_Witness ==
    \E r \in Reqs :
        /\ req[r].pc = "done" /\ req[r].request.method = "GET" /\ req[r].status = 200
        /\ FoundRowAndObject(req[r])
        /\ RefreshOf(req[r]) \notin bg
        /\ RowsOf(db, ObjKeyOf(req[r])) = RowsOf(req[r].pre.db, ObjKeyOf(req[r]))
        /\ RefreshOf(req[r]) \notin db

\* C23: an invocation of the sweeper that runs alone comes to its end: it
\* can always take its next step; its marker strictly increases with every
\* batch, so it takes no more batches than there are keys; it ends at a
\* query that finds no stale key above the marker, and only there (after a
\* batch it always asks again).
C23_SweepTerminates ==
    /\ [](sweep.pc # "idle" => ENABLED (getStaleObjectsFromDB \/ scheduledDeleteKeys))
    /\ [][/\ (sweep.pc = "query" /\ sweep'.pc = "delete")
             => StrLess(sweep.marker, sweep'.marker)
          /\ (sweep.pc = "query" /\ sweep'.pc = "idle")
             => (StaleKeys(db, sweep.marker, sweep.staleTime) = {}
                 /\ sweep'.last = "completed")
          /\ (sweep.pc = "query" /\ StaleKeys(db, sweep.marker, sweep.staleTime) = {})
             => sweep'.pc \in {"query", "idle"}
          /\ sweep.pc = "delete" => sweep'.pc \in {"delete", "query"}
         ]_vars

\* C23, witness: an invocation that took two batches has completed.
C23_Witness ==
    /\ sweep.pc = "idle"
    /\ sweep.last = "completed"
    /\ Cardinality(pendingDel) = 2

\* C24 (as claimed): every query of a sweep answers its keys in ascending
\* order: the marker taken from a batch is the greatest key of the batch,
\* and every stale key above the old marker that the batch leaves out is
\* greater than the new marker.
C24_BatchInKeyOrder ==
    [][(sweep.pc = "query" /\ sweep'.pc = "delete")
       => /\ \A i \in 1..Len(sweep'.keys), j \in 1..Len(sweep'.keys) :
               i < j => StrLess(sweep'.keys[i], sweep'.keys[j])
          /\ \A k \in Range(sweep'.keys) : ~StrLess(sweep'.marker, k)
          /\ \A k \in StaleKeys(db, sweep.marker, sweep.staleTime) \ Range(sweep'.keys) :
               StrLess(sweep'.marker, k)
      ]_vars

\* C25 (as claimed): an invocation starts with an empty marker and the
\* stale time of its own moment; and an invocation that follows a completed
\* one, with no request in between and the same stale time, finds nothing:
\* it deletes no row and calls bucket.delete for no key.
C25_SecondSweepDeletesNothing ==
    [][/\ (sweep.pc = "idle" /\ sweep'.pc # "idle")
          => (sweep'.marker = <<>> /\ sweep'.staleTime = StaleTime(clock))
       /\ (sweep.pc # "idle" /\ used.sweeps >= 2)
          => (db' = db /\ pendingDel' \subseteq pendingDel)
      ]_vars

\* The call of retrieve in slot r has written its entry.
Wrote(r) == req[r].pc \notin {"idle", "auth", "fetched"}

\* C26: when calls of retrieve for one id miss and run side by side, every
\* one of them fetches, and the entry of the id is at all times the whole
\* pair, value and expiration, of one call: each write puts the pair of the
\* writing call in place of what was there, and nothing else changes the
\* cache, so the entry is the pair of the call that wrote last.
C26_EntryIsOneCallsPair ==
    /\ [](\A k \in DOMAIN tokens :
            \E r \in Reqs :
               /\ Wrote(r)
               /\ TokenKey(req[r].request.headers) = k
               /\ tokens[k] = CacheEntry(JsDate(req[r].authNow), req[r].storedValue))
    /\ [](\A r \in Reqs : Wrote(r) => TokenKey(req[r].request.headers) \in DOMAIN tokens)
    /\ [][/\ \A r \in Reqs :
               (req[r].pc = "fetched" /\ req'[r].pc # "fetched")
               => (/\ DOMAIN tokens' = DOMAIN tokens \cup {TokenKey(req[r].request.headers)}
                   /\ tokens'[TokenKey(req[r].request.headers)]
                        = CacheEntry(JsDate(req[r].authNow), req[r].storedValue)
                   /\ \A k \in DOMAIN tokens :
                         (k # TokenKey(req[r].request.headers)) => (tokens'[k] = tokens[k]))
          /\ (tokens' # tokens)
               => (\E r \in Reqs : req[r].pc = "fetched" /\ req'[r].pc # "fetched")
         ]_vars

\* Two calls for alice's token missed and ran side by side; they fetched
\* different values at different times, and the call that started first
\* wrote last: the entry is its pair, not the other call's.
C26_Witness ==
    /\ Wrote(1) /\ Wrote(2)
    /\ req[1].authNow < req[2].authNow
    /\ req[1].storedValue # req[2].storedValue
    /\ tokens[TokenKey(req[1].request.headers)]
         = CacheEntry(JsDate(req[1].authNow), req[1].storedValue)

\* C27 (as claimed): with requests running alongside a sweep, a row leaves
\* CacheEntries, and an object leaves the bucket, only if the key's row is
\* stale at the moment of the deletion: a row that an Upload or a refresh
\* made fresh after the sweep had selected its key is kept, and so is its
\* object.
C27_DeletesOnlyWhatIsStaleAtDeletion ==
    [][/\ \A row \in db :
              (RowsOf(db', row.key) = {}) => (row.last_used <= StaleTime(clock))
       /\ \A n \in DOMAIN bucket :
              (IsCacheName(n) /\ n \notin DOMAIN bucket')
              => (\A row \in RowsOf(db, n) : row.last_used <= StaleTime(clock))
      ]_vars

\* C28 (as claimed): while a key has a row, no step lowers the row's
\* last_used, in whatever order the upserts of Uploads and the last_used
\* updates of Retrieves settle.
C28_LastUsedNeverDecreases ==
    [][\A old \in db : \A new \in RowsOf(db', old.key) :
          new.last_used >= old.last_used]_vars

\* A Retrieve is at work: its request is being handled or answered, or its
\* last_used update has not settled.
InRetrieve ==
    \/ \E r \in Reqs : req[r].pc # "idle" /\ req[r].request.method = "GET"
    \/ bg # {}

\* The keys of the Retrieves at work.
RetrieveKeys ==
    {ObjKeyOf(req[r]) : r \in {x \in Reqs : req[x].pc # "idle" /\ req[x].request.method = "GET"}}
    \cup {t.key : t \in bg}

\* C29: no step of a Retrieve, from the arrival of the request to the
\* settling of its last_used update, changes which keys have a row in
\* CacheEntries or changes the bucket; the only rows it changes are rows of
\* the requested key, which keep their key.
C29_RetrieveChangesOnlyLastUsed ==
    [][(InRetrieve \/ InRetrieve')
       => /\ {row.key : row \in db'} = {row.key : row \in db}
          /\ Cardinality(db') = Cardinality(db)
          /\ bucket' = bucket
          /\ \A row \in db : (row \notin db') => (row.key \in RetrieveKeys)
      ]_vars

\* C29, witness: a Retrieve of a key with an object and no row was answered
\* 200, its update has settled, and the key still has no row.
C29_Witness ==
    \E r \in Reqs :
        /\ req[r].pc = "done" /\ req[r].request.method = "GET" /\ req[r].status = 200
        /\ req[r].pre.set
        /\ RowsOf(req[r].pre.db, ObjKeyOf(req[r])) = {}
        /\ RefreshOf(req[r]) \notin bg
        /\ RowsOf(db, ObjKeyOf(req[r])) = {}
        /\ ObjKeyOf(req[r]) \in DOMAIN bucket

\* C30: when the upsert of an Upload fails (the step that ends the upsert
\* leaves CacheEntries without the Upload's row), the Upload ends there with
\* an exception: bucket.put is never issued, the bucket is as the Upload
\* found it and the answer is not 201.
C30_FailedUpsertWritesNoBlob ==
    /\ [][\A r \in Reqs :
             (/\ req[r].pc = "upsert"
              /\ req'[r].pc # "upsert"
              /\ Row(ObjKeyOf(req[r]), req[r].nowInEpochSeconds) \notin db')
             => (/\ req'[r].pc = "threw"
                 /\ req'[r].putSucceeded = "unset"
                 /\ req'[r].status # 201
                 /\ bucket' = bucket)
         ]_vars
    /\ [](\A r \in Reqs :
            (/\ req[r].request.method = "PUT"
             /\ req[r].pc = "threw"
             /\ req[r].putSucceeded = "unset")
            => (/\ req[r].status # 201
                /\ req[r].pre.set => CacheObjects(bucket) = req[r].pre.objects))

\* C30, witness: an Upload of a key with no object ended with the exception
\* of its upsert; the key has no row of this Upload and still no object.
C30_Witness ==
    \E r \in Reqs :
        /\ req[r].request.method = "PUT"
        /\ req[r].pc = "threw"
        /\ req[r].putSucceeded = "unset"
        /\ req[r].pre.set
        /\ ObjKeyOf(req[r]) \notin DOMAIN req[r].pre.objects
        /\ ObjKeyOf(req[r]) \notin DOMAIN bucket
        /\ Row(ObjKeyOf(req[r]), req[r].nowInEpochSeconds) \notin db

\* The verdict on the headers from the token object itself, read from the
\* bucket at this moment.
DirectDecision(headers) ==
    /\ TokenKey(headers) \in DOMAIN bucket
    /\ headers[TOKEN_VALUE_HEADER] = bucket[TokenKey(headers)]

\* C31: while the token objects do not change, every authentication
\* decision, whatever the token cache holds and whatever time has passed
\* since it was filled, is the decision the token object itself gives: the
\* request goes on to its store calls if and only if its id has a stored
\* token and its value is the stored one, and is answered 401 otherwise; and
\* every entry of the cache holds what the bucket holds for its id.
C31_CacheIsTransparent ==
    /\ [][\A r \in Reqs :
             (/\ AuthDecided(r)
              /\ IsCacheRoute(req'[r].request)
              /\ HeadersPresent(req'[r].request.headers))
             => IF DirectDecision(req'[r].request.headers)
                THEN req'[r].pc = (IF req'[r].request.method = "PUT"
                                   THEN "upsert" ELSE "get")
                ELSE req'[r].pc = "done" /\ req'[r].status = 401
         ]_vars
    /\ [](\A k \in DOMAIN tokens : tokens[k].value = fetchFromR2(k, bucket))
    /\ [][\A n \in DOMAIN bucket \cup DOMAIN bucket' :
             StartsWith(n, TokensPrefix)
             => (n \in DOMAIN bucket /\ n \in DOMAIN bucket' /\ bucket'[n] = bucket[n])
         ]_vars

\* C31, witness: the second request of the run, with alice's id and stored
\* value, has passed authentication at a later time than the first, which
\* had filled the cache for the same id (the cache holds alice's entry
\* alone).
C31_Witness ==
    /\ used.requests = 2
    /\ req[1].pc = "get"
    /\ req[1].request.headers = Headers(alice, "secret1")
    /\ req[1].t0 > ClockStart
    /\ DOMAIN tokens = {TokensPrefix \o alice}

============================================================================
